---- MODULE Spec2Model ----
(***************************************************************************)
(* A model of theauditor/insights/graph.py (class GraphInsights): hotspot  *)
(* ranking, centrality, health and fragility scoring, recommendations,     *)
(* the impact ratio and the summary.                                       *)
(*                                                                         *)
(* Python numbers are modelled exactly: an int is a TLA+ integer, a float  *)
(* is a rational number [neg, num, den] whose numerator and denominator    *)
(* are arbitrary-precision naturals (sequences of base-10000 limbs, least  *)
(* significant first), because the centrality values after 10 iterations   *)
(* have denominators far beyond 32 bits.                                   *)
(***************************************************************************)
EXTENDS Integers, Sequences, FiniteSets, TLC

VARIABLES weights, op, args, result, frame, heap, kept

vars == <<weights, op, args, result, frame, heap, kept>>

-----------------------------------------------------------------------------
(* Arbitrary-precision naturals.                                           *)

Base == 10000

RECURSIVE BFromInt(_)
BFromInt(n) == IF n = 0 THEN <<>> ELSE <<n % Base>> \o BFromInt(n \div Base)

RECURSIVE BStrip(_)
BStrip(a) ==
    IF a = <<>> THEN <<>>
    ELSE IF a[Len(a)] = 0 THEN BStrip(SubSeq(a, 1, Len(a) - 1))
    ELSE a

RECURSIVE BAddC(_, _, _)
BAddC(a, b, c) ==
    IF a = <<>> /\ b = <<>> THEN (IF c = 0 THEN <<>> ELSE <<c>>)
    ELSE LET x == IF a = <<>> THEN 0 ELSE Head(a)
             y == IF b = <<>> THEN 0 ELSE Head(b)
             s == x + y + c
         IN  <<s % Base>> \o BAddC(IF a = <<>> THEN <<>> ELSE Tail(a),
                                   IF b = <<>> THEN <<>> ELSE Tail(b),
                                   s \div Base)

BAdd(a, b) == BAddC(a, b, 0)

RECURSIVE BSubC(_, _, _)
BSubC(a, b, c) ==
    IF a = <<>> THEN <<>>
    ELSE LET y == IF b = <<>> THEN 0 ELSE Head(b)
             d == Head(a) - y - c
         IN  <<IF d < 0 THEN d + Base ELSE d>>
             \o BSubC(Tail(a), IF b = <<>> THEN <<>> ELSE Tail(b),
                      IF d < 0 THEN 1 ELSE 0)

\* a - b for a >= b
BSub(a, b) == BStrip(BSubC(a, b, 0))

RECURSIVE BMulSmallC(_, _, _)
BMulSmallC(a, k, c) ==
    IF a = <<>> THEN (IF c = 0 THEN <<>> ELSE <<c>>)
    ELSE LET p == Head(a) * k + c
         IN  <<p % Base>> \o BMulSmallC(Tail(a), k, p \div Base)

\* a * k for a limb-sized k (0 <= k < Base)
BMulSmall(a, k) == IF k = 0 THEN <<>> ELSE BMulSmallC(a, k, 0)

RECURSIVE BMul(_, _)
BMul(a, b) ==
    IF a = <<>> \/ b = <<>> THEN <<>>
    ELSE IF b = <<1>> THEN a
    ELSE IF a = <<1>> THEN b
    ELSE IF Len(b) = 1 THEN BMulSmall(a, b[1])
    ELSE LET rest == BMul(a, Tail(b))
         IN  BAdd(BMulSmall(a, Head(b)),
                  IF rest = <<>> THEN <<>> ELSE <<0>> \o rest)

RECURSIVE BCmpFrom(_, _, _)
BCmpFrom(a, b, i) ==
    IF i = 0 THEN 0
    ELSE IF a[i] < b[i] THEN -1
    ELSE IF a[i] > b[i] THEN 1
    ELSE BCmpFrom(a, b, i - 1)

\* -1, 0 or 1 as a < b, a = b, a > b
BCmp(a, b) ==
    IF Len(a) < Len(b) THEN -1
    ELSE IF Len(a) > Len(b) THEN 1
    ELSE BCmpFrom(a, b, Len(a))

-----------------------------------------------------------------------------
(* Exact rationals standing for Python floats (and ints mixed with them).  *)

Abs(n) == IF n < 0 THEN -n ELSE n

QMake(neg, num, den) == [neg |-> neg /\ num # <<>>, num |-> num, den |-> den]

\* the int n
QInt(n) == QMake(n < 0, BFromInt(Abs(n)), <<1>>)

\* the quotient n / d of two ints, d > 0 (Python's true division)
QFrac(n, d) == QMake(n < 0, BFromInt(Abs(n)), BFromInt(d))

QNeg(x) == QMake(~x.neg, x.num, x.den)

QAdd(x, y) ==
    LET a == BMul(x.num, y.den)
        b == BMul(y.num, x.den)
        d == BMul(x.den, y.den)
    IN  IF x.neg = y.neg THEN QMake(x.neg, BAdd(a, b), d)
        ELSE IF BCmp(a, b) >= 0 THEN QMake(x.neg, BSub(a, b), d)
        ELSE QMake(y.neg, BSub(b, a), d)

QSub(x, y) == QAdd(x, QNeg(y))

QMul(x, y) == QMake(x.neg # y.neg, BMul(x.num, y.num), BMul(x.den, y.den))

\* x / y for y # 0
QDiv(x, y) == QMake(x.neg # y.neg, BMul(x.num, y.den), BMul(x.den, y.num))

\* -1, 0 or 1 as x < y, x = y, x > y
QCmp(x, y) ==
    LET a == BMul(x.num, y.den)
        b == BMul(y.num, x.den)
    IN  IF x.neg /\ ~y.neg THEN -1
        ELSE IF ~x.neg /\ y.neg THEN 1
        ELSE IF x.neg THEN BCmp(b, a)
        ELSE BCmp(a, b)

QLt(x, y) == QCmp(x, y) < 0
QLe(x, y) == QCmp(x, y) <= 0
QGt(x, y) == QCmp(x, y) > 0
QGe(x, y) == QCmp(x, y) >= 0
QEq(x, y) == QCmp(x, y) = 0

\* Python's min(x, y) and max(x, y): the first argument unless the second
\* is strictly smaller (larger)
QMin(x, y) == IF QLt(y, x) THEN y ELSE x
QMax(x, y) == IF QGt(y, x) THEN y ELSE x

-----------------------------------------------------------------------------
(* Python values.                                                          *)

\* An optional value: None, or Some(v)
None == <<>>
Some(v) == <<v>>
IsNone(o) == o = <<>>
Val(o) == o[1]

\* Python truthiness of an optional list or dict (None and empty are falsy)
Truthy(o) == ~IsNone(o) /\ Val(o) # <<>>

Zero == QInt(0)
One == QInt(1)

RECURSIVE Gcd(_, _)
Gcd(a, b) == IF b = 0 THEN a ELSE Gcd(b, a % b)

Lcm(a, b) == (a * b) \div Gcd(a, b)

RECURSIVE LcmOver(_, _)
LcmOver(S, f) ==
    IF S = {} THEN 1
    ELSE LET x == CHOOSE x \in S : TRUE IN Lcm(f[x], LcmOver(S \ {x}, f))

\* the function f as an explicit table: each value is computed once, here
RECURSIVE TableOver(_, _)
TableOver(S, f) ==
    IF S = {} THEN <<>>
    ELSE LET x == CHOOSE x \in S : TRUE
         IN  (x :> f[x]) @@ TableOver(S \ {x}, f)

Table(f) == TableOver(DOMAIN f, f)

RECURSIVE BSum(_, _)
BSum(S, f) ==
    IF S = {} THEN <<>>
    ELSE LET x == CHOOSE x \in S : TRUE IN BAdd(f[x], BSum(S \ {x}, f))

RECURSIVE BMaxOver(_, _)
BMaxOver(S, f) ==
    IF S = {} THEN <<>>
    ELSE LET x == CHOOSE x \in S : TRUE
             m == BMaxOver(S \ {x}, f)
         IN  IF BCmp(f[x], m) > 0 THEN f[x] ELSE m

-----------------------------------------------------------------------------
(* _calculate_centrality                                                   *)

\* damping = 0.85 = DampingNum / DampingDen
DampingNum == 17
DampingDen == 20
Iterations == 10

\* EdgeNodes taking in the ids of the node list as well
EdgeNodes_WithListed(graph) ==
    {graph.edges[i].source : i \in DOMAIN graph.edges}
        \cup {graph.edges[i].target : i \in DOMAIN graph.edges}
        \cup {graph.nodes[i].id : i \in DOMAIN graph.nodes}

\* nodes: every id that is the source or the target of an edge
EdgeNodes(graph) ==
    {graph.edges[i].source : i \in DOMAIN graph.edges}
        \cup {graph.edges[i].target : i \in DOMAIN graph.edges}

\* adj[source]: the targets of source's edges, in edge order, one entry per
\* edge (parallel edges repeat the target)
Adj(graph, source) ==
    LET mine == SelectSeq(graph.edges, LAMBDA e : e.source = source)
    IN  [i \in DOMAIN mine |-> mine[i].target]

\* node in adj[source]
InAdj(graph, node, source) ==
    \E i \in DOMAIN graph.edges :
        graph.edges[i].source = source /\ graph.edges[i].target = node

\* OutCount counting the distinct targets of source (a set for the list)
OutCount_DistinctTargets(graph, source) ==
    LET n == Cardinality({graph.edges[i].target :
                             i \in {j \in DOMAIN graph.edges :
                                        graph.edges[j].source = source}})
    IN  IF n = 0 THEN 1 ELSE n

\* out_count = len(adj[source]) or 1
OutCount(graph, source) ==
    LET n == Len(Adj(graph, source)) IN IF n = 0 THEN 1 ELSE n

\* The scores of one iteration are kept over a common denominator:
\* the score of node n is num[n] / den.
InitialScores(graph) ==
    [num |-> [n \in EdgeNodes(graph) |-> <<1>>], den |-> <<1>>]

\* Iterate without the (1 - damping) term every node starts from
Iterate_NoBaseTerm(graph, scores) ==
    LET nodes == EdgeNodes(graph)
        oc == [s \in nodes |-> OutCount(graph, s)]
        K == LcmOver(nodes, oc)
        contrib == Table([s \in nodes |->
                       BMulSmall(scores.num[s], DampingNum * (K \div oc[s]))])
    IN  [num |-> Table([node \in nodes |->
                     BSum({s \in nodes : InAdj(graph, node, s)}, contrib)]),
         den |-> BMulSmall(scores.den, DampingDen * K)]

\* One pass of the loop body: new_scores from scores.
\*   new_scores[node] = (1 - damping)
\*       + sum over the sources whose adj holds node of
\*             damping * scores[source] / out_count
\* With K the least common multiple of the out_counts, the new common
\* denominator is DampingDen * K * den.
Iterate(graph, scores) ==
    LET nodes == EdgeNodes(graph)
        oc == [s \in nodes |-> OutCount(graph, s)]
        K == LcmOver(nodes, oc)
        base == BMulSmall(scores.den, (DampingDen - DampingNum) * K)
        contrib == Table([s \in nodes |->
                       BMulSmall(scores.num[s], DampingNum * (K \div oc[s]))])
    IN  [num |-> Table([node \in nodes |->
                     BAdd(base,
                          BSum({s \in nodes : InAdj(graph, node, s)}, contrib))]),
         den |-> BMulSmall(scores.den, DampingDen * K)]

RECURSIVE PowerIteration(_, _, _)
\* k passes of the loop.  new_scores is complete (its common denominator is
\* a positive number) before `scores = new_scores` and the next pass.
PowerIteration(graph, scores, k) ==
    IF k = 0 THEN scores
    ELSE LET new_scores == Iterate(graph, scores)
         IN  IF new_scores.den # <<>>
             THEN PowerIteration(graph, new_scores, k - 1)
             ELSE new_scores

\* max(scores.values()), as a rational
MaxScore(scores) ==
    QMake(FALSE, BMaxOver(DOMAIN scores.num, scores.num), scores.den)

\* `if scores:` and `if max_score > 0:` both pass
WillNormalize(scores) ==
    DOMAIN scores.num # {} /\ QGt(MaxScore(scores), Zero)

\* Normalize scores to [0, 1]: the map node -> float that is returned.
\* v / max_score = (num / den) / (max num / den) = num / max num
Normalize(scores) ==
    LET max_num == BMaxOver(DOMAIN scores.num, scores.num)
    IN  IF WillNormalize(scores)
        THEN [k \in DOMAIN scores.num |-> QMake(FALSE, scores.num[k], max_num)]
        ELSE [k \in DOMAIN scores.num |->
                 QMake(FALSE, scores.num[k], scores.den)]

CalculateCentrality(graph) ==
    Normalize(PowerIteration(graph, InitialScores(graph), Iterations))

-----------------------------------------------------------------------------
(* __init__ and rank_hotspots                                              *)

Tenths(n) == QFrac(n, 10)

DEFAULT_WEIGHTS ==
    [in_degree |-> Tenths(3), out_degree |-> Tenths(2), centrality |-> Tenths(3),
     churn |-> Tenths(1), loc |-> Tenths(1)]

\* self.weights = weights or self.DEFAULT_WEIGHTS (None and the empty dict
\* give the defaults)
NewWeights(w) == IF Truthy(w) THEN Val(w) ELSE DEFAULT_WEIGHTS

\* the number of edges of the list es whose field at the given end is id
EdgeCount(es, end, id) ==
    Cardinality({i \in DOMAIN es : es[i][end] = id})

\* Degree without the call graph's edges
Degree_ImportOnly(import_graph, call_graph, end, id) ==
    EdgeCount(import_graph.edges, end, id)

\* in_degree[id] and out_degree[id] after both counting loops; the call
\* graph is counted only when it is given
Degree(import_graph, call_graph, end, id) ==
    EdgeCount(import_graph.edges, end, id)
        + (IF IsNone(call_graph) THEN 0
           ELSE EdgeCount(Val(call_graph).edges, end, id))

\* node.get(key, 0) or 0
FieldOrZero(field) == IF IsNone(field) THEN 0 ELSE Val(field)

\* centrality.get(node_id, 0)
CentralityGet(centrality, node_id) ==
    IF node_id \in DOMAIN centrality THEN centrality[node_id] ELSE Zero

\* the weighted score of one node
Score(w, in_deg, out_deg, cent, churn, loc) ==
    QAdd(QAdd(QAdd(QAdd(QMul(w.in_degree, QInt(in_deg)),
                        QMul(w.out_degree, QInt(out_deg))),
                   QMul(w.centrality, cent)),
              QMul(w.churn, QFrac(churn, 100))),
         QMul(w.loc, QFrac(loc, 1000)))

\* the record appended for one entry of the node list
Hotspot(w, import_graph, call_graph, centrality, node) ==
    LET in_deg == Degree(import_graph, call_graph, "target", node.id)
        out_deg == Degree(import_graph, call_graph, "source", node.id)
        cent == CentralityGet(centrality, node.id)
        churn == FieldOrZero(node.churn)
        loc == FieldOrZero(node.loc)
    IN  [id |-> node.id, in_degree |-> in_deg, out_degree |-> out_deg,
         centrality |-> cent, churn |-> churn, loc |-> loc,
         score |-> Score(w, in_deg, out_deg, cent, churn, loc)]

\* InsertByScore placing a record before the records of equal score (the
\* sort no longer keeps ties in their original order)
RECURSIVE InsertByScore_TiesFirst(_, _)
InsertByScore_TiesFirst(sorted, h) ==
    IF sorted = <<>> THEN <<h>>
    ELSE IF QLe(Head(sorted).score, h.score) THEN <<h>> \o sorted
    ELSE <<Head(sorted)>> \o InsertByScore_TiesFirst(Tail(sorted), h)

\* hotspots.sort(key=score, reverse=True): a stable sort, highest first
RECURSIVE InsertByScore(_, _)
InsertByScore(sorted, h) ==
    IF sorted = <<>> THEN <<h>>
    ELSE IF QLt(Head(sorted).score, h.score) THEN <<h>> \o sorted
    ELSE <<Head(sorted)>> \o InsertByScore(Tail(sorted), h)

RECURSIVE SortByScore(_)
SortByScore(hs) ==
    IF hs = <<>> THEN <<>>
    ELSE InsertByScore(SortByScore(SubSeq(hs, 1, Len(hs) - 1)), hs[Len(hs)])

RankHotspots(w, import_graph, call_graph) ==
    LET centrality == CalculateCentrality(import_graph)
    IN  SortByScore([i \in DOMAIN import_graph.nodes |->
            Hotspot(w, import_graph, call_graph, centrality,
                    import_graph.nodes[i])])

-----------------------------------------------------------------------------
(* calculate_health_metrics                                                *)

Min(a, b) == IF b < a THEN b ELSE a

\* Density with the guard nodes_count > 0 for nodes_count > 1: a single
\* node gives max_edges = 0 and density 0
Density_GuardFromOne(import_graph) ==
    LET nodes_count == Len(import_graph.nodes)
        edges_count == Len(import_graph.edges)
        max_edges == IF nodes_count > 0 THEN nodes_count * (nodes_count - 1)
                     ELSE 1
    IN  IF max_edges > 0 THEN QFrac(edges_count, max_edges) ELSE Zero

\* density = edges_count / max_edges if max_edges > 0 else 0, with
\* max_edges = nodes_count * (nodes_count - 1) if nodes_count > 1 else 1
Density(import_graph) ==
    LET nodes_count == Len(import_graph.nodes)
        edges_count == Len(import_graph.edges)
        max_edges == IF nodes_count > 1 THEN nodes_count * (nodes_count - 1)
                     ELSE 1
    IN  IF max_edges > 0 THEN QFrac(edges_count, max_edges) ELSE Zero

\* cycle_penalty, 0 when the branch is not taken
CyclePenalty(cycles) ==
    IF Truthy(cycles) THEN Min(Len(Val(cycles)) * 5, 30) ELSE 0

\* density_penalty, 0 when the branch is not taken
DensityPenalty(density) ==
    IF QGt(density, Tenths(3))
    THEN QMin(QMul(QSub(density, Tenths(3)), QInt(100)), QInt(20))
    ELSE Zero

\* HotspotPenalty with the threshold off by one (>= 50 for > 50)
HotspotPenalty_From50(hotspots) ==
    IF Truthy(hotspots) /\ Val(hotspots)[1].in_degree >= 50
    THEN Min(Val(hotspots)[1].in_degree \div 10, 20)
    ELSE 0

\* hotspot_penalty, 0 when the branch is not taken
HotspotPenalty(hotspots) ==
    IF Truthy(hotspots) /\ Val(hotspots)[1].in_degree > 50
    THEN Min(Val(hotspots)[1].in_degree \div 10, 20)
    ELSE 0

\* HealthScore with the density penalty added instead of subtracted
HealthScore_AddsDensityPenalty(density, cycles, hotspots) ==
    QSub(QAdd(QSub(QInt(100), QInt(CyclePenalty(cycles))),
              DensityPenalty(density)),
         QInt(HotspotPenalty(hotspots)))

\* the local health_score after the three penalties
HealthScore(density, cycles, hotspots) ==
    QSub(QSub(QSub(QInt(100), QInt(CyclePenalty(cycles))),
              DensityPenalty(density)),
         QInt(HotspotPenalty(hotspots)))

\* HealthGrade with strict comparisons (> for >=)
HealthGrade_Strict(health_score) ==
    IF QGt(health_score, QInt(90)) THEN "A"
    ELSE IF QGt(health_score, QInt(80)) THEN "B"
    ELSE IF QGt(health_score, QInt(70)) THEN "C"
    ELSE IF QGt(health_score, QInt(60)) THEN "D"
    ELSE "F"

HealthGrade(health_score) ==
    IF QGe(health_score, QInt(90)) THEN "A"
    ELSE IF QGe(health_score, QInt(80)) THEN "B"
    ELSE IF QGe(health_score, QInt(70)) THEN "C"
    ELSE IF QGe(health_score, QInt(60)) THEN "D"
    ELSE "F"

\* Fragility with the cycle term of the health score (5 per cycle)
Fragility_FivePerCycle(density, cycles, hotspots) ==
    LET f1 == IF Truthy(hotspots)
              THEN QMin(QMul(Val(hotspots)[1].score, QInt(10)), QInt(40))
              ELSE Zero
        f2 == IF Truthy(cycles)
              THEN QAdd(f1, QInt(Min(Len(Val(cycles)) * 5, 30)))
              ELSE f1
    IN  QAdd(f2, QMin(QMul(density, QInt(100)), QInt(30)))

\* the local fragility after the three additions
Fragility(density, cycles, hotspots) ==
    LET f1 == IF Truthy(hotspots)
              THEN QMin(QMul(Val(hotspots)[1].score, QInt(10)), QInt(40))
              ELSE Zero
        f2 == IF Truthy(cycles)
              THEN QAdd(f1, QInt(Min(Len(Val(cycles)) * 3, 30)))
              ELSE f1
    IN  QAdd(f2, QMin(QMul(density, QInt(100)), QInt(30)))

\* max(layers.keys())
MaxKey(layers) == CHOOSE k \in DOMAIN layers : \A j \in DOMAIN layers : j <= k

\* a layer map is a function from layer key to the list of its node ids;
\* len(layers) is the number of keys
\* WellLayered with the key bound off by one (<= 10 for < 10)
WellLayered_KeyUpTo10(layers) ==
    IF ~IsNone(layers) /\ DOMAIN Val(layers) # {}
    THEN Cardinality(DOMAIN Val(layers)) > 2 /\ MaxKey(Val(layers)) <= 10
    ELSE FALSE

WellLayered(layers) ==
    IF ~IsNone(layers) /\ DOMAIN Val(layers) # {}
    THEN Cardinality(DOMAIN Val(layers)) > 2 /\ MaxKey(Val(layers)) < 10
    ELSE FALSE

CalculateHealthMetrics(import_graph, cycles, hotspots, layers) ==
    LET density == Density(import_graph)
        health_score == HealthScore(density, cycles, hotspots)
    IN  [health_score |-> QMax(health_score, Zero),
         health_grade |-> HealthGrade(health_score),
         fragility_score |->
             QMin(Fragility(density, cycles, hotspots), QInt(100)),
         density |-> density,
         cycle_free |-> IF Truthy(cycles) THEN Len(Val(cycles)) = 0 ELSE TRUE,
         well_layered |-> WellLayered(layers),
         loosely_coupled |-> QLt(density, Tenths(2)),
         no_god_objects |->
             ~Truthy(hotspots) \/ Val(hotspots)[1].in_degree < 30]

-----------------------------------------------------------------------------
(* generate_recommendations                                                *)

RECURSIVE BToInt(_)
BToInt(a) == IF a = <<>> THEN 0 ELSE Head(a) + Base * BToInt(Tail(a))

\* "{:.2f}".format(x) for a small x >= 0, as the number of hundredths
\* printed (round half to even)
Format2f(x) ==
    LET n == 100 * BToInt(x.num)
        d == BToInt(x.den)
        q == n \div d
        r == n % d
    IN  IF 2 * r > d \/ (2 * r = d /\ q % 2 = 1) THEN q + 1 ELSE q

\* One recommendation string: the rule that produced it and the values
\* formatted into it
Recommendation(rule, n, id) == [rule |-> rule, n |-> n, id |-> id]

\* LayeringSuggestion testing `layers is not None` for `layers`: an empty
\* layer map gets the suggestion too
LayeringSuggestion_NotNone(layers) ==
    IF ~IsNone(layers) /\ Cardinality(DOMAIN Val(layers)) <= 2
    THEN <<Recommendation("layering-suggestion", 0, "")>>
    ELSE <<>>

\* if layers and len(layers) <= 2: None and the empty dict are both falsy
LayeringSuggestion(layers) ==
    IF /\ ~IsNone(layers)
       /\ DOMAIN Val(layers) # {}
       /\ Cardinality(DOMAIN Val(layers)) <= 2
    THEN <<Recommendation("layering-suggestion", 0, "")>>
    ELSE <<>>

\* GenerateRecommendations with the hotspot rule tested before the
\* coupling rule
GenerateRecommendations_HotspotFirst(import_graph, cycles, hotspots, layers) ==
    LET density == Density(import_graph)
        r1 == IF Truthy(cycles) /\ Len(Val(cycles)) > 0
              THEN <<Recommendation("cycle-breaking", Len(Val(cycles)), "")>>
              ELSE <<>>
        r2 == IF QGt(density, Tenths(3))
              THEN <<Recommendation("coupling-reduction", Format2f(density), "")>>
              ELSE <<>>
        r3 == IF /\ Truthy(hotspots)
                 /\ Len(Val(hotspots)) > 0
                 /\ Val(hotspots)[1].in_degree > 30
              THEN <<Recommendation("hotspot-refactor",
                                    Val(hotspots)[1].in_degree,
                                    Val(hotspots)[1].id)>>
              ELSE <<>>
        r4 == LayeringSuggestion(layers)
    IN  r1 \o r3 \o r2 \o r4

GenerateRecommendations(import_graph, cycles, hotspots, layers) ==
    LET density == Density(import_graph)
        r1 == IF Truthy(cycles) /\ Len(Val(cycles)) > 0
              THEN <<Recommendation("cycle-breaking", Len(Val(cycles)), "")>>
              ELSE <<>>
        r2 == IF QGt(density, Tenths(3))
              THEN <<Recommendation("coupling-reduction", Format2f(density), "")>>
              ELSE <<>>
        r3 == IF /\ Truthy(hotspots)
                 /\ Len(Val(hotspots)) > 0
                 /\ Val(hotspots)[1].in_degree > 30
              THEN <<Recommendation("hotspot-refactor",
                                    Val(hotspots)[1].in_degree,
                                    Val(hotspots)[1].id)>>
              ELSE <<>>
        r4 == LayeringSuggestion(layers)
    IN  r1 \o r2 \o r3 \o r4

-----------------------------------------------------------------------------
(* calculate_impact_ratio                                                  *)

CalculateImpactRatio(targets, all_impacted, total_nodes) ==
    IF total_nodes = 0 THEN Zero
    ELSE QDiv(QInt(Cardinality(all_impacted)), QInt(total_nodes))

-----------------------------------------------------------------------------
(* summarize                                                               *)

RECURSIVE MaxOf(_, _, _)
\* max((h[field] for h in hs), default=d)
MaxOf(hs, field, d) ==
    IF hs = <<>> THEN d
    ELSE LET m == MaxOf(Tail(hs), field, Head(hs)[field])
         IN  IF Head(hs)[field] >= m THEN Head(hs)[field] ELSE m

\* the node ids of all cycles
CycleNodes(cycles) ==
    UNION {{cycles[i].nodes[j] : j \in DOMAIN cycles[i].nodes} :
              i \in DOMAIN cycles}

\* detected and identified stand for what analyzer.detect_cycles and
\* analyzer.identify_layers return for import_graph
Summarize(w, import_graph, call_graph, cycles_arg, hotspots_arg, detected, identified) ==
    LET density == Density(import_graph)
        cycles == IF IsNone(cycles_arg) THEN detected ELSE Val(cycles_arg)
        hotspots == IF IsNone(hotspots_arg)
                    THEN RankHotspots(w, import_graph, call_graph)
                    ELSE Val(hotspots_arg)
        layers == identified
    IN  [import_graph |-> [nodes |-> Len(import_graph.nodes),
                           edges |-> Len(import_graph.edges),
                           density |-> density],
         call_graph |-> IF IsNone(call_graph) THEN None
                        ELSE Some([nodes |-> Len(Val(call_graph).nodes),
                                   edges |-> Len(Val(call_graph).edges)]),
         cycles |-> [total |-> Len(cycles),
                     largest |-> IF cycles # <<>> THEN cycles[1].size ELSE 0,
                     nodes_in_cycles |-> Cardinality(CycleNodes(cycles))],
         hotspots |-> [top_5 |-> [i \in 1..Min(Len(hotspots), 5) |->
                                     hotspots[i].id],
                       max_in_degree |-> MaxOf(hotspots, "in_degree", 0),
                       max_out_degree |-> MaxOf(hotspots, "out_degree", 0)],
         layers |-> [count |-> Cardinality(DOMAIN layers),
                     distribution |-> [k \in DOMAIN layers |-> Len(layers[k])]],
         health_metrics |->
             CalculateHealthMetrics(import_graph, Some(cycles), Some(hotspots),
                                    Some(layers)),
         recommendations |->
             GenerateRecommendations(import_graph, Some(cycles), Some(hotspots),
                                     Some(layers))]

-----------------------------------------------------------------------------
(* interpret_graph_summary                                                 *)

\* d.get(key, default): a dict is a function from its keys
DictGet(d, key, default) == IF key \in DOMAIN d THEN d[key] ELSE default

\* len([h for h in hotspots if h.get(field, 0) > threshold])
CountAbove(hotspots, field, threshold) ==
    Cardinality({i \in DOMAIN hotspots :
                    DictGet(hotspots[i], field, 0) > threshold})

CouplingLevel(density) ==
    IF QGt(density, Tenths(3)) THEN "high"
    ELSE IF QGt(density, Tenths(1)) THEN "medium"
    ELSE "low"

\* the dict insights
Insights(graph_data) ==
    LET stats == DictGet(graph_data, "statistics", <<>>)
        density == DictGet(stats, "graph_density", Zero)
        hotspots == DictGet(graph_data, "top_hotspots", <<>>)
    IN  [coupling_level |-> CouplingLevel(density),
         potential_god_objects |-> CountAbove(hotspots, "in_degree", 30),
         highly_connected |-> CountAbove(hotspots, "total_connections", 20)]

\* InterpretGraphSummary building a new dict that holds the insights alone
InterpretGraphSummary_FreshDict(graph_data) ==
    "architectural_insights" :> Insights(graph_data)

\* the content of the object graph_data after
\* graph_data["architectural_insights"] = insights
InterpretGraphSummary(graph_data) ==
    ("architectural_insights" :> Insights(graph_data)) @@ graph_data

-----------------------------------------------------------------------------
(* Inputs.                                                                 *)

MaxNodes == 2
MaxEdges == 2

SeqsUpTo(S, n) == UNION {[1..k -> S] : k \in 0..n}

Node(id, churn, loc) == [id |-> id, churn |-> churn, loc |-> loc]
Edge(s, t) == [source |-> s, target |-> t]

\* "X" never occurs in an edge, "C" never in a node list
NodePool ==
    {Node("A", None, None), Node("X", None, None),
     Node("B", Some(200), Some(3000))}

EdgePool ==
    {Edge("A", "B"), Edge("B", "A"), Edge("A", "A"), Edge("C", "A")}

Graphs ==
    {[nodes |-> ns, edges |-> es] :
        ns \in SeqsUpTo(NodePool, MaxNodes), es \in SeqsUpTo(EdgePool, MaxEdges)}

\* _calculate_centrality: every edge list over three ids, with an empty node
\* list or one that names an id no edge has
CentralityEdgePool ==
    {Edge(x, y) : x \in {"A", "B", "C"}, y \in {"A", "B", "C"}}

CentralityGraphs ==
    {[nodes |-> ns, edges |-> es] :
        ns \in {<<>>, <<Node("X", None, None), Node("A", None, None)>>},
        es \in SeqsUpTo(CentralityEdgePool, MaxEdges)}

CallGraphs ==
    {None,
     Some([nodes |-> <<Node("A", None, None)>>,
           edges |-> <<Edge("C", "B"), Edge("A", "B")>>])}

WeightArgs ==
    {None,
     Some(<<>>),
     Some([in_degree |-> One, out_degree |-> One, centrality |-> Zero,
           churn |-> Zero, loc |-> Zero])}

\* Graphs of every size for the operations that read only len(nodes) and
\* len(edges): n listed nodes and m edges running round them.
\* SizedGraph(3, 3) is A -> B, B -> C, C -> A.
MaxGraphNodes == 5
MaxGraphEdges == 8

Ids == <<"A", "B", "C", "D", "E", "F", "G", "H">>

SizedGraph(n, m) ==
    LET r == IF n = 0 THEN 1 ELSE n
    IN  [nodes |-> [i \in 1..n |-> Node(Ids[i], None, None)],
         edges |-> [k \in 1..m |->
                       Edge(Ids[((k - 1) % r) + 1], Ids[(k % r) + 1])]]

SizedGraphs ==
    {SizedGraph(n, m) : n \in 0..MaxGraphNodes, m \in 0..MaxGraphEdges}

\* Cycles as the cycle detector reports them
Cycle(ns) == [nodes |-> ns, size |-> Len(ns)]

MaxCycles == 11

CycleLists ==
    {[i \in 1..k |-> IF i % 2 = 1 THEN Cycle(<<"A", "B", "C">>)
                     ELSE Cycle(<<"A", "B">>)] : k \in 0..MaxCycles}

CyclesArgs == {None} \cup {Some(c) : c \in CycleLists}

\* Hotspot lists handed in by a caller: only id, in_degree and score are read
GivenHotspot(id, in_degree, score) ==
    [id |-> id, in_degree |-> in_degree, out_degree |-> 0, centrality |-> Zero,
     churn |-> 0, loc |-> 0, score |-> score]

HotspotLists ==
    {<<>>,
     <<GivenHotspot("A", 29, QFrac(1, 2))>>,
     <<GivenHotspot("A", 30, QInt(3))>>,
     <<GivenHotspot("B", 31, QFrac(39, 10))>>,
     <<GivenHotspot("B", 40, QInt(4))>>,
     <<GivenHotspot("B", 50, QFrac(41, 10))>>,
     <<GivenHotspot("C", 51, QInt(5))>>,
     <<GivenHotspot("C", 250, QInt(100))>>,
     <<GivenHotspot("A", 10, QInt(1)), GivenHotspot("B", 60, QInt(9))>>}

HotspotsArgs == {None} \cup {Some(h) : h \in HotspotLists}

\* Layer maps: layer key -> node ids
LayerMaps ==
    {<<>>,
     (0 :> <<"A", "B", "C">>),
     (0 :> <<"A">>) @@ (1 :> <<"B", "C">>),
     (0 :> <<"A">>) @@ (1 :> <<"B">>) @@ (2 :> <<"C">>),
     (0 :> <<"A">>) @@ (1 :> <<"B">>) @@ (10 :> <<"C">>)}

LayersArgs == {None} \cup {Some(l) : l \in LayerMaps}

\* calculate_impact_ratio
MaxTotalNodes == 4

ImpactIds == {"A", "B", "C"}

TargetLists == {<<>>, <<"A">>, <<"B", "A">>}

\* summarize: small graphs, the cycle lists a caller or the detector may
\* hand over, and the hotspot lists a caller may hand over
SummaryGraphs ==
    {SizedGraph(n, m) : n \in 0..(MaxNodes + 1), m \in 0..(MaxEdges + 1)}

SummaryCycleLists ==
    {<<>>,
     <<Cycle(<<"A", "B">>)>>,
     <<Cycle(<<"A", "B", "C">>), Cycle(<<"A", "B">>)>>,
     <<Cycle(<<"A", "B">>), Cycle(<<"A", "B", "C">>)>>}

SummaryHotspotsArgs ==
    {None, Some(<<>>),
     Some(<<GivenHotspot("A", 10, QInt(1)), GivenHotspot("B", 60, QInt(9))>>)}

\* A session of calls on one engine: a few import graphs of two listed
\* nodes, and few arguments for the calls made in between
SessionGraphs ==
    {g \in Graphs : /\ Len(g.nodes) = 2
                    /\ g.nodes[1].id = "A"
                    /\ g.nodes[2].id # "A"
                    /\ Len(g.edges) <= 1}

SessionSizedGraphs == {SizedGraph(3, 3)}

SessionCyclesArgs == {None, Some(<<Cycle(<<"A", "B", "C">>)>>)}

\* interpret_graph_summary: the summary objects a caller holds.  Every part
\* is optional; a summary may already carry insights from an earlier pass.
Optional(key, values) == {<<>>} \cup {key :> v : v \in values}

StatisticsPool ==
    {<<>>,
     [graph_density |-> Tenths(1), total_nodes |-> 7],
     [graph_density |-> Tenths(3)],
     [graph_density |-> QFrac(31, 100)]}

TopHotspotLists ==
    {<<>>,
     <<[id |-> "A", in_degree |-> 31, total_connections |-> 21]>>,
     <<[id |-> "A", in_degree |-> 30, total_connections |-> 20],
       [id |-> "B", in_degree |-> 31],
       [id |-> "C", total_connections |-> 21],
       [id |-> "D", in_degree |-> 40, total_connections |-> 50],
       [id |-> "E"]>>}

GraphDataPool ==
    {("project" :> "repo") @@ st @@ th @@ ai :
        st \in Optional("statistics", StatisticsPool),
        th \in Optional("top_hotspots", TopHotspotLists),
        ai \in Optional("architectural_insights",
                        {[coupling_level |-> "stale"]})}

\* the names of the summary objects
GraphDataRefs == {"g1", "g2"}

-----------------------------------------------------------------------------
(* The engine.                                                             *)

\* op names the call whose arguments and returned value args and result
\* hold; "idle" between calls.  frame holds the locals of a call that is
\* still running (only _calculate_centrality is followed through its
\* loop).  The engine's only field is weights.
Init ==
    /\ weights \in {NewWeights(w) : w \in WeightArgs}
    /\ op = "idle"
    /\ args = <<>>
    /\ result = <<>>
    /\ frame = <<>>
    /\ heap = <<>>
    /\ kept = None

\* _calculate_centrality up to the loop: adj and nodes are built, every
\* score is 1.0 and no iteration has run
CentralityStart ==
    /\ op = "idle"
    /\ \E g \in CentralityGraphs :
        /\ op' = "_calculate_centrality"
        /\ args' = [graph |-> g]
        /\ frame' = [pc |-> "loop", done |-> 0, scores |-> InitialScores(g),
                     normalized |-> FALSE]
        /\ UNCHANGED <<weights, result, heap, kept>>

\* one pass of `for _ in range(iterations)`
CentralityIterate ==
    /\ op = "_calculate_centrality"
    /\ frame.pc = "loop"
    /\ frame.done < Iterations
    /\ frame' = [frame EXCEPT !.done = @ + 1,
                              !.scores = Iterate(args.graph, frame.scores)]
    /\ UNCHANGED <<weights, op, args, result, heap, kept>>

\* the loop is over: normalize and return
CentralityFinish ==
    /\ op = "_calculate_centrality"
    /\ frame.pc = "loop"
    /\ frame.done = Iterations
    /\ frame' = [frame EXCEPT !.pc = "return",
                              !.normalized = WillNormalize(frame.scores)]
    /\ result' = Normalize(frame.scores)
    /\ UNCHANGED <<weights, op, args, heap, kept>>

\* CallRankHotspotsOn using up the centrality weight: the next call ranks
\* without it
CallRankHotspotsOn_ClearsWeight(graphs, call_graphs) ==
    /\ op = "idle"
    /\ \E g \in graphs, cg \in call_graphs :
        /\ op' = "rank_hotspots"
        /\ args' = [import_graph |-> g, call_graph |-> cg]
        /\ result' = RankHotspots(weights, g, cg)
        /\ frame' = <<>>
        /\ weights' = [weights EXCEPT !.centrality = Zero]
        /\ UNCHANGED <<heap, kept>>

\* rank_hotspots called with an import graph and a call graph of the given
\* sets
CallRankHotspotsOn(graphs, call_graphs) ==
    /\ op = "idle"
    /\ \E g \in graphs, cg \in call_graphs :
        /\ op' = "rank_hotspots"
        /\ args' = [import_graph |-> g, call_graph |-> cg]
        /\ result' = RankHotspots(weights, g, cg)
        /\ frame' = <<>>
        /\ UNCHANGED <<weights, heap, kept>>

CallRankHotspots == CallRankHotspotsOn(Graphs, CallGraphs)

\* the caller takes the list returned and keeps it with the arguments of the
\* call, to compare a later call with
Keep ==
    /\ op = "rank_hotspots"
    /\ IsNone(kept)
    /\ kept' = Some([weights |-> weights, args |-> args, result |-> result])
    /\ op' = "idle"
    /\ args' = <<>>
    /\ result' = <<>>
    /\ frame' = <<>>
    /\ UNCHANGED <<weights, heap>>

\* the caller takes the returned value; the engine is ready for the next call
Return ==
    /\ op # "idle"
    /\ op = "_calculate_centrality" => frame.pc = "return"
    /\ op' = "idle"
    /\ args' = <<>>
    /\ result' = <<>>
    /\ frame' = <<>>
    /\ UNCHANGED <<weights, heap, kept>>

\* calculate_health_metrics called with arguments of the given sets
CallCalculateHealthMetricsOn(graphs, cycles, hotspots, layers) ==
    /\ op = "idle"
    /\ \E g \in graphs, c \in cycles, h \in hotspots, l \in layers :
        /\ op' = "calculate_health_metrics"
        /\ args' = [import_graph |-> g, cycles |-> c, hotspots |-> h,
                    layers |-> l]
        /\ result' = CalculateHealthMetrics(g, c, h, l)
        /\ frame' = <<>>
        /\ UNCHANGED <<weights, heap, kept>>

CallCalculateHealthMetrics ==
    CallCalculateHealthMetricsOn(SizedGraphs, CyclesArgs, HotspotsArgs,
                                 LayersArgs)

\* generate_recommendations called with arguments of the given sets
CallGenerateRecommendationsOn(graphs, cycles, hotspots, layers) ==
    /\ op = "idle"
    /\ \E g \in graphs, c \in cycles, h \in hotspots, l \in layers :
        /\ op' = "generate_recommendations"
        /\ args' = [import_graph |-> g, cycles |-> c, hotspots |-> h,
                    layers |-> l]
        /\ result' = GenerateRecommendations(g, c, h, l)
        /\ frame' = <<>>
        /\ UNCHANGED <<weights, heap, kept>>

CallGenerateRecommendations ==
    CallGenerateRecommendationsOn(SizedGraphs, CyclesArgs, HotspotsArgs,
                                  LayersArgs)

CallCalculateImpactRatio ==
    /\ op = "idle"
    /\ \E t \in TargetLists, imp \in SUBSET ImpactIds, n \in 0..MaxTotalNodes :
        /\ op' = "calculate_impact_ratio"
        /\ args' = [targets |-> t, all_impacted |-> imp, total_nodes |-> n]
        /\ result' = CalculateImpactRatio(t, imp, n)
        /\ frame' = <<>>
        /\ UNCHANGED <<weights, heap, kept>>

\* a caller obtains a summary object
NewGraphData ==
    /\ op = "idle"
    /\ \E ref \in GraphDataRefs \ DOMAIN heap, d \in GraphDataPool :
        heap' = heap @@ (ref :> d)
    /\ UNCHANGED <<weights, op, args, result, frame, kept>>

\* graph_data is a reference: the object is changed in place and the same
\* reference is returned
CallInterpretGraphSummary ==
    /\ op = "idle"
    /\ \E ref \in DOMAIN heap :
        /\ op' = "interpret_graph_summary"
        /\ args' = [graph_data |-> ref]
        /\ heap' = [heap EXCEPT ![ref] = InterpretGraphSummary(heap[ref])]
        /\ result' = ref
        /\ frame' = <<>>
        /\ UNCHANGED <<weights, kept>>

CallSummarize ==
    /\ op = "idle"
    /\ \E g \in SummaryGraphs, cg \in CallGraphs,
          c \in {None} \cup {Some(x) : x \in SummaryCycleLists},
          h \in SummaryHotspotsArgs,
          detected \in SummaryCycleLists, identified \in LayerMaps :
        /\ IsNone(c) \/ detected = <<>>
        /\ op' = "summarize"
        /\ args' = [import_graph |-> g, call_graph |-> cg, cycles |-> c,
                    hotspots |-> h, detected |-> detected,
                    identified |-> identified]
        /\ result' = Summarize(weights, g, cg, c, h, detected, identified)
        /\ frame' = <<>>
        /\ UNCHANGED <<weights, heap, kept>>

Next ==
    \/ CentralityStart
    \/ CentralityIterate
    \/ CentralityFinish
    \/ CallRankHotspots
    \/ Keep
    \/ CallCalculateHealthMetrics
    \/ CallGenerateRecommendations
    \/ CallCalculateImpactRatio
    \/ CallSummarize
    \/ NewGraphData
    \/ CallInterpretGraphSummary
    \/ Return

Spec == Init /\ [][Next]_vars

SpecCentrality ==
    Init /\ [][CentralityStart \/ CentralityIterate \/ CentralityFinish
                  \/ Return]_vars

SpecDensity ==
    Init /\ [][CallCalculateHealthMetrics \/ CallGenerateRecommendations
                  \/ CallSummarize \/ Return]_vars

SpecRank == Init /\ [][CallRankHotspots \/ Return]_vars

SpecHealth == Init /\ [][CallCalculateHealthMetrics \/ Return]_vars

SpecRecommend == Init /\ [][CallGenerateRecommendations \/ Return]_vars

SpecImpact == Init /\ [][CallCalculateImpactRatio \/ Return]_vars

SpecSummarize == Init /\ [][CallSummarize \/ Return]_vars

\* calls in any order on one engine, rank_hotspots among them
SpecSession ==
    Init /\ [][\/ CallRankHotspotsOn(SessionGraphs, CallGraphs)
               \/ Keep
               \/ CallCalculateHealthMetricsOn(SessionSizedGraphs,
                                               SessionCyclesArgs, {None},
                                               {None})
               \/ CallGenerateRecommendationsOn(SessionSizedGraphs,
                                                SessionCyclesArgs, {None},
                                                {None})
               \/ CallCalculateImpactRatio
               \/ Return]_vars

SpecInterpret ==
    Init /\ [][NewGraphData \/ CallInterpretGraphSummary \/ Return]_vars

-----------------------------------------------------------------------------
(* Properties.                                                             *)

InUnit(x) == QGe(x, Zero) /\ QLe(x, One)
InPercent(x) == QGe(x, Zero) /\ QLe(x, QInt(100))

\* the number of cycles a call was given (0 when none were given)
NumCycles(cycles) == IF IsNone(cycles) THEN 0 ELSE Len(Val(cycles))

\* whether a call was given a non-empty hotspot list
HasTop(hotspots) == ~IsNone(hotspots) /\ Len(Val(hotspots)) >= 1

\* C1: every result of calculate_health_metrics has 0 <= health_score <= 100
\* and 0 <= fragility_score <= 100 (all hotspot lists drawn have
\* non-negative in_degree and score).
C1_ScoresInRange ==
    op = "calculate_health_metrics" =>
        /\ InPercent(result.health_score)
        /\ InPercent(result.fragility_score)

\* every penalty and every fragility term is at its cap: health 30,
\* fragility 100
C1_Witness ==
    /\ op = "calculate_health_metrics"
    /\ QEq(result.health_score, QInt(30))
    /\ QEq(result.fragility_score, QInt(100))

\* the density of a graph as the claims state it
ClaimedDensity(g) ==
    IF Len(g.nodes) > 1
    THEN QFrac(Len(g.edges), Len(g.nodes) * (Len(g.nodes) - 1))
    ELSE QInt(Len(g.edges))

C2_CyclePenalty(cycles) ==
    IF 5 * NumCycles(cycles) < 30 THEN 5 * NumCycles(cycles) ELSE 30

C2_DensityPenalty(d) ==
    IF QGt(d, QFrac(3, 10))
    THEN LET p == QMul(QSub(d, QFrac(3, 10)), QInt(100))
         IN  IF QLt(p, QInt(20)) THEN p ELSE QInt(20)
    ELSE Zero

C2_HotspotPenalty(hotspots) ==
    IF HasTop(hotspots) /\ Val(hotspots)[1].in_degree > 50
    THEN (IF Val(hotspots)[1].in_degree \div 10 < 20
          THEN Val(hotspots)[1].in_degree \div 10 ELSE 20)
    ELSE 0

\* C2: health_score = max(0, 100 - cyclePenalty - densityPenalty -
\* hotspotPenalty) with the three penalties as the claim defines them, and
\* the graph A -> B -> C -> A with one supplied cycle scores 75.
C2_HealthScoreFormula ==
    op = "calculate_health_metrics" =>
        LET raw == QSub(QInt(100 - C2_CyclePenalty(args.cycles)
                                 - C2_HotspotPenalty(args.hotspots)),
                        C2_DensityPenalty(ClaimedDensity(args.import_graph)))
        IN  /\ QEq(result.health_score, IF QLt(raw, Zero) THEN Zero ELSE raw)
            /\ (/\ args.import_graph = SizedGraph(3, 3)
                /\ NumCycles(args.cycles) = 1
                /\ C2_HotspotPenalty(args.hotspots) = 0)
               => QEq(result.health_score, QInt(75))

\* the scenario of the claim, with a first hotspot whose in_degree is
\* exactly 50 (no hotspot penalty yet)
C2_Witness ==
    /\ op = "calculate_health_metrics"
    /\ args.import_graph = SizedGraph(3, 3)
    /\ args.cycles = Some(<<Cycle(<<"A", "B", "C">>)>>)
    /\ HasTop(args.hotspots)
    /\ Val(args.hotspots)[1].in_degree = 50
    /\ QEq(result.health_score, QInt(75))
    /\ result.health_grade = "C"

\* C3: health_grade is the letter of the returned health_score: A from 90,
\* B from 80, C from 70, D from 60, F below 60.
C3_GradeMatchesScore ==
    op = "calculate_health_metrics" =>
        LET h == result.health_score
            g == result.health_grade
        IN  /\ g \in {"A", "B", "C", "D", "F"}
            /\ g = "A" <=> QGe(h, QInt(90))
            /\ g = "B" <=> QGe(h, QInt(80)) /\ QLt(h, QInt(90))
            /\ g = "C" <=> QGe(h, QInt(70)) /\ QLt(h, QInt(80))
            /\ g = "D" <=> QGe(h, QInt(60)) /\ QLt(h, QInt(70))
            /\ g = "F" <=> QLt(h, QInt(60))

\* a score exactly on a threshold: 90 is an A
C3_Witness ==
    /\ op = "calculate_health_metrics"
    /\ QEq(result.health_score, QInt(90))
    /\ result.health_grade = "A"

C4_Capped(x, cap) == IF QLt(x, QInt(cap)) THEN x ELSE QInt(cap)

\* C4: fragility_score = min(100, H + C + D) with H = min(10 * first score,
\* 40) for a non-empty hotspot list, C = min(3 * cycles, 30) for a
\* non-empty cycle list, D = min(100 * density, 30); the right-hand side
\* reads neither the health score nor the layer map.
C4_FragilityFormula ==
    op = "calculate_health_metrics" =>
        LET H == IF HasTop(args.hotspots)
                 THEN C4_Capped(QMul(QInt(10), Val(args.hotspots)[1].score), 40)
                 ELSE Zero
            C == IF NumCycles(args.cycles) > 0
                 THEN C4_Capped(QInt(3 * NumCycles(args.cycles)), 30)
                 ELSE Zero
            D == C4_Capped(QMul(QInt(100), ClaimedDensity(args.import_graph)), 30)
        IN  QEq(result.fragility_score, C4_Capped(QAdd(QAdd(H, C), D), 100))

\* no term is capped and a layer map is given: H = 5, C = 6, D = 25
C4_Witness ==
    /\ op = "calculate_health_metrics"
    /\ ~IsNone(args.layers)
    /\ HasTop(args.hotspots)
    /\ QEq(Val(args.hotspots)[1].score, QFrac(1, 2))
    /\ NumCycles(args.cycles) = 2
    /\ QEq(ClaimedDensity(args.import_graph), QFrac(1, 4))
    /\ QEq(result.fragility_score, QInt(36))

\* C5: calculate_impact_ratio returns a number in [0, 1]: 0.0 when
\* total_nodes is 0 and otherwise len(all_impacted) / total_nodes, whatever
\* targets is.
C5_RatioInUnitInterval ==
    op = "calculate_impact_ratio" =>
        /\ InUnit(result)
        /\ args.total_nodes = 0 => QEq(result, Zero)
        /\ args.total_nodes # 0 =>
               QEq(result, QFrac(Cardinality(args.all_impacted),
                                 args.total_nodes))

\* the one-to-one maps from result positions to node-list positions
Perms(n) ==
    {p \in [1..n -> 1..n] : \A i, j \in 1..n : i # j => p[i] # p[j]}

\* C6: rank_hotspots returns one record per entry of the node list (the
\* record at position i belongs to entry p[i] for a one-to-one p, so ids
\* keep their multiplicity, ids that only edges name are absent and listed
\* ids without edges are present), ordered by score descending, records of
\* equal score in node-list order.
C6_StableRanking ==
    op = "rank_hotspots" =>
        LET nodes == args.import_graph.nodes
            n == Len(nodes)
        IN  /\ Len(result) = n
            /\ \E p \in Perms(n) :
                /\ \A i \in 1..n :
                    /\ result[i].id = nodes[p[i]].id
                    /\ result[i].churn = FieldOrZero(nodes[p[i]].churn)
                    /\ result[i].loc = FieldOrZero(nodes[p[i]].loc)
                /\ \A i, j \in 1..n : i < j =>
                    \/ QGt(result[i].score, result[j].score)
                    \/ /\ QEq(result[i].score, result[j].score)
                       /\ p[i] < p[j]

\* two listed nodes of equal score stay in node-list order, beside an id
\* that only an edge names
C6_Witness ==
    /\ op = "rank_hotspots"
    /\ Len(result) = 2
    /\ result[1].id = args.import_graph.nodes[1].id
    /\ result[2].id = args.import_graph.nodes[2].id
    /\ result[1].id # result[2].id
    /\ QEq(result[1].score, result[2].score)
    /\ \E x \in EdgeNodes(args.import_graph) :
           x # result[1].id /\ x # result[2].id
    /\ result[1].id \notin EdgeNodes(args.import_graph)

\* the edges of the call graph of a call, none when no call graph is given
CallEdges(cg) == IF IsNone(cg) THEN <<>> ELSE Val(cg).edges

\* C7: in every record, in_degree (out_degree) counts the import edges and
\* the call edges whose target (source) is the node, centrality is the
\* node's centrality in the import graph alone (0 without an incident
\* import edge), churn and loc are the node's or 0, and score is the
\* weighted sum; a single node X without edges gets zeros throughout.
C7_RecordFields ==
    op = "rank_hotspots" =>
        LET ie == args.import_graph.edges
            ce == CallEdges(args.call_graph)
            cent == CalculateCentrality(args.import_graph)
        IN  /\ \A i \in DOMAIN result :
                LET r == result[i] IN
                /\ r.in_degree =
                       Cardinality({k \in DOMAIN ie : ie[k].target = r.id})
                       + Cardinality({k \in DOMAIN ce : ce[k].target = r.id})
                /\ r.out_degree =
                       Cardinality({k \in DOMAIN ie : ie[k].source = r.id})
                       + Cardinality({k \in DOMAIN ce : ce[k].source = r.id})
                /\ (\E k \in DOMAIN ie : r.id \in {ie[k].source, ie[k].target})
                       => r.centrality = cent[r.id]
                /\ ~(\E k \in DOMAIN ie : r.id \in {ie[k].source, ie[k].target})
                       => QEq(r.centrality, Zero)
                /\ \E k \in DOMAIN args.import_graph.nodes :
                       LET node == args.import_graph.nodes[k] IN
                       /\ node.id = r.id
                       /\ r.churn = (IF node.churn = None THEN 0
                                     ELSE node.churn[1])
                       /\ r.loc = (IF node.loc = None THEN 0 ELSE node.loc[1])
                /\ QEq(r.score,
                       QAdd(QMul(weights.in_degree, QInt(r.in_degree)),
                       QAdd(QMul(weights.out_degree, QInt(r.out_degree)),
                       QAdd(QMul(weights.centrality, r.centrality),
                       QAdd(QMul(weights.churn, QFrac(r.churn, 100)),
                            QMul(weights.loc, QFrac(r.loc, 1000)))))))
            /\ (/\ args.import_graph.nodes = <<Node("X", None, None)>>
                /\ ie = <<>>
                /\ ce = <<>>)
               => /\ Len(result) = 1
                  /\ result[1].id = "X"
                  /\ result[1].in_degree = 0
                  /\ result[1].out_degree = 0
                  /\ QEq(result[1].centrality, Zero)
                  /\ QEq(result[1].score, Zero)

\* node B with churn and loc, one import edge and two call edges into it,
\* under the default weights:
\* score = 0.3 * 3 + 0.2 * 0 + 0.3 * 1 + 0.1 * 2 + 0.1 * 3 = 1.7
C7_Witness ==
    /\ op = "rank_hotspots"
    /\ weights = DEFAULT_WEIGHTS
    /\ args.import_graph.edges = <<Edge("A", "B")>>
    /\ \E i \in DOMAIN result :
        /\ result[i].id = "B"
        /\ result[i].in_degree = 3
        /\ result[i].churn = 200
        /\ result[i].loc = 3000
        /\ QEq(result[i].centrality, One)
        /\ QEq(result[i].score, QFrac(17, 10))

\* C8: for a graph with at least one edge the maximum score is strictly
\* positive before normalization (at every pass of the loop), so the
\* normalizing branch is the one taken, and the returned map has every
\* value in [0, 1] and maximum exactly 1.
C8_NormalizedCentrality ==
    (op = "_calculate_centrality" /\ args.graph.edges # <<>>) =>
        /\ QGt(MaxScore(frame.scores), Zero)
        /\ frame.pc = "return" =>
            /\ frame.done = Iterations
            /\ frame.normalized
            /\ DOMAIN result # {}
            /\ \A k \in DOMAIN result : InUnit(result[k])
            /\ \E k \in DOMAIN result : QEq(result[k], One)

\* a returned map with a value strictly below the maximum
C8_Witness ==
    /\ op = "_calculate_centrality"
    /\ frame.pc = "return"
    /\ frame.done = Iterations
    /\ \E k \in DOMAIN result : QEq(result[k], One)
    /\ \E k \in DOMAIN result : QGt(result[k], Zero) /\ QLt(result[k], One)

\* whether a list of recommendations holds one of the given rule
HasRule(recs, rule) == \E i \in DOMAIN recs : recs[i].rule = rule

\* C9: the density of calculate_health_metrics, of summarize and of
\* generate_recommendations (seen in its coupling rule) is
\* edges / (nodes * (nodes - 1)) for more than one listed node and the edge
\* count otherwise; it is never negative, 0 for the empty graph, and
\* summarize reports the same value twice.
C9_Density ==
    /\ op \in {"calculate_health_metrics", "summarize"} =>
        LET d == IF op = "summarize" THEN result.import_graph.density
                 ELSE result.density
        IN  /\ QEq(d, ClaimedDensity(args.import_graph))
            /\ QGe(d, Zero)
            /\ args.import_graph = [nodes |-> <<>>, edges |-> <<>>]
                   => QEq(d, Zero)
    /\ op = "summarize" =>
        /\ QEq(result.health_metrics.density, result.import_graph.density)
        /\ HasRule(result.recommendations, "coupling-reduction")
               <=> QGt(result.import_graph.density, QFrac(3, 10))
    /\ op = "generate_recommendations" =>
        /\ HasRule(result, "coupling-reduction")
               <=> QGt(ClaimedDensity(args.import_graph), QFrac(3, 10))
        /\ \A i \in DOMAIN result : result[i].rule = "coupling-reduction" =>
               result[i].n = Format2f(ClaimedDensity(args.import_graph))

\* summarize on one listed node and two edges: the density is the edge
\* count, 2, in both places
C9_Witness ==
    /\ op = "summarize"
    /\ Len(args.import_graph.nodes) = 1
    /\ Len(args.import_graph.edges) = 2
    /\ QEq(result.import_graph.density, QInt(2))
    /\ QEq(result.health_metrics.density, QInt(2))

RuleOrder ==
    <<"cycle-breaking", "coupling-reduction", "hotspot-refactor",
      "layering-suggestion">>

RuleRank(rule) == CHOOSE k \in DOMAIN RuleOrder : RuleOrder[k] = rule

\* the number of layers a call was given (none: -1)
NumLayers(layers) ==
    IF IsNone(layers) THEN -1 ELSE Cardinality(DOMAIN Val(layers))

\* C10: generate_recommendations returns at most one string per rule, in
\* the order cycle-breaking, coupling-reduction, hotspot-refactor,
\* layering-suggestion; the first three are present exactly on a non-empty
\* cycle list, a density above 0.3 and a first hotspot with in_degree above
\* 30; cycles, density 0.4, top in_degree 40 and exactly 2 layers give all
\* four; no rule firing (no layer map, or more than 2 layers) gives the
\* empty list.
C10_RecommendationOrder ==
    op = "generate_recommendations" =>
        LET cyc == NumCycles(args.cycles) > 0
            dens == QGt(ClaimedDensity(args.import_graph), QFrac(3, 10))
            hot == HasTop(args.hotspots) /\ Val(args.hotspots)[1].in_degree > 30
        IN  /\ \A i \in DOMAIN result :
                \E k \in DOMAIN RuleOrder : result[i].rule = RuleOrder[k]
            /\ \A i, j \in DOMAIN result :
                i < j => RuleRank(result[i].rule) < RuleRank(result[j].rule)
            /\ HasRule(result, "cycle-breaking") <=> cyc
            /\ HasRule(result, "coupling-reduction") <=> dens
            /\ HasRule(result, "hotspot-refactor") <=> hot
            /\ (/\ cyc
                /\ QEq(ClaimedDensity(args.import_graph), QFrac(4, 10))
                /\ HasTop(args.hotspots)
                /\ Val(args.hotspots)[1].in_degree = 40
                /\ NumLayers(args.layers) = 2)
               => [i \in DOMAIN result |-> result[i].rule] = RuleOrder
            /\ (~cyc /\ ~dens /\ ~hot
                /\ (NumLayers(args.layers) = -1 \/ NumLayers(args.layers) > 2))
               => result = <<>>

\* the scenario of the claim: 5 nodes and 8 edges (density 0.4, printed as
\* 0.40), cycles, a first hotspot with in_degree 40, 2 layers
C10_Witness ==
    /\ op = "generate_recommendations"
    /\ NumCycles(args.cycles) > 0
    /\ QEq(ClaimedDensity(args.import_graph), QFrac(4, 10))
    /\ HasTop(args.hotspots)
    /\ Val(args.hotspots)[1].in_degree = 40
    /\ NumLayers(args.layers) = 2
    /\ Len(result) = 4
    /\ result[2] = Recommendation("coupling-reduction", 40, "")
    /\ result[3] = Recommendation("hotspot-refactor", 40, "B")

\* whether a call was given a layer map that is not empty
HasLayers(layers) == NumLayers(layers) >= 1

\* C11 as stated: generate_recommendations emits the layering suggestion
\* whenever the layer count is at most 2, for every layer map including one
\* with zero layers, and never when the layer count is greater than 2.
C11_LayeringForEveryMap ==
    (op = "generate_recommendations" /\ ~IsNone(args.layers)) =>
        (HasRule(result, "layering-suggestion")
             <=> NumLayers(args.layers) <= 2)

\* C11 as amended: generate_recommendations emits the layering suggestion
\* exactly when a layer map is given, is not empty and has at most 2 layers;
\* an absent layer map, a map with zero layers and a map with more than 2
\* layers get none, and the suggestion comes after every other string.
C11_LayeringSuggestion ==
    op = "generate_recommendations" =>
        /\ HasRule(result, "layering-suggestion")
               <=> (HasLayers(args.layers) /\ NumLayers(args.layers) <= 2)
        /\ \A i \in DOMAIN result :
               result[i].rule = "layering-suggestion" => i = Len(result)

\* a call given a map with zero layers that returns nothing at all
C11_Witness ==
    /\ op = "generate_recommendations"
    /\ args.layers = Some(<<>>)
    /\ result = <<>>

\* C12: the flags of calculate_health_metrics: cycle_free iff no cycles are
\* given or the list is empty; loosely_coupled iff density < 0.2;
\* no_god_objects iff no hotspots are given, the list is empty or the first
\* in_degree is below 30; well_layered iff the layer map has more than 2
\* entries and its largest key is below 10 (false when absent or empty).
\* Layer keys are numbers (tier indices).
C12_Flags ==
    op = "calculate_health_metrics" =>
        /\ result.cycle_free <=> NumCycles(args.cycles) = 0
        /\ result.loosely_coupled
               <=> QLt(ClaimedDensity(args.import_graph), QFrac(2, 10))
        /\ result.no_god_objects
               <=> (~HasTop(args.hotspots)
                    \/ Val(args.hotspots)[1].in_degree < 30)
        /\ result.well_layered
               <=> /\ NumLayers(args.layers) > 2
                   /\ \A k \in DOMAIN Val(args.layers) : k < 10

\* three layers of which one has key 10: not well layered; with density
\* exactly 0.2 (not loosely coupled) and a first in_degree of exactly 30
\* (a god object), and no cycles given
C12_Witness ==
    /\ op = "calculate_health_metrics"
    /\ NumLayers(args.layers) = 3
    /\ 10 \in DOMAIN Val(args.layers)
    /\ ~result.well_layered
    /\ QEq(result.density, QFrac(2, 10))
    /\ ~result.loosely_coupled
    /\ HasTop(args.hotspots)
    /\ Val(args.hotspots)[1].in_degree = 30
    /\ ~result.no_god_objects
    /\ IsNone(args.cycles)
    /\ result.cycle_free

\* the cycle list a call of summarize works on: the one passed, or the one
\* the cycle detector returned
CyclesUsed == IF IsNone(args.cycles) THEN args.detected ELSE Val(args.cycles)

\* the size of the largest cycle of a list, 0 for the empty list
LargestSize(cycles) ==
    IF cycles = <<>> THEN 0
    ELSE CHOOSE m \in {cycles[i].size : i \in DOMAIN cycles} :
             \A i \in DOMAIN cycles : cycles[i].size <= m

\* C13: for every cycle list summarize is passed or obtains, in any order,
\* cycles.total is the number of cycles, cycles.largest the size of the
\* largest cycle (0 for the empty list) and cycles.nodes_in_cycles the
\* number of distinct node ids that occur in a cycle.
C13_CycleStatistics ==
    op = "summarize" =>
        /\ result.cycles.total = Len(CyclesUsed)
        /\ result.cycles.largest = LargestSize(CyclesUsed)
        /\ result.cycles.nodes_in_cycles =
               Cardinality(UNION {{CyclesUsed[i].nodes[j] :
                                      j \in DOMAIN CyclesUsed[i].nodes} :
                                  i \in DOMAIN CyclesUsed})

\* the density the claim reads: statistics.graph_density, 0 when absent
C14_Density(d) ==
    IF "statistics" \in DOMAIN d /\ "graph_density" \in DOMAIN d.statistics
    THEN d.statistics.graph_density
    ELSE Zero

\* the number of top_hotspots entries that have the field with a value
\* above the threshold
C14_Count(d, field, threshold) ==
    IF "top_hotspots" \in DOMAIN d
    THEN Cardinality({i \in DOMAIN d.top_hotspots :
                         /\ field \in DOMAIN d.top_hotspots[i]
                         /\ d.top_hotspots[i][field] > threshold})
    ELSE 0

\* C14: interpret_graph_summary returns the reference it was given; the
\* object has gained the field architectural_insights and every other field
\* of it (and every other object) is as before; coupling_level is high for
\* density > 0.3, medium for 0.1 < density <= 0.3 and low otherwise,
\* potential_god_objects counts the entries with in_degree > 30 and
\* highly_connected those with total_connections > 20.
C14_InterpretInPlace ==
    [][(op = "idle" /\ op' = "interpret_graph_summary") =>
        LET ref == args'.graph_data
            before == heap[ref]
            after == heap'[ref]
            d == C14_Density(before)
        IN  /\ result' = ref
            /\ DOMAIN heap' = DOMAIN heap
            /\ \A o \in DOMAIN heap \ {ref} : heap'[o] = heap[o]
            /\ DOMAIN after = DOMAIN before \cup {"architectural_insights"}
            /\ \A k \in DOMAIN before \ {"architectural_insights"} :
                   after[k] = before[k]
            /\ after.architectural_insights =
                   [coupling_level |->
                        IF QGt(d, QFrac(3, 10)) THEN "high"
                        ELSE IF QGt(d, QFrac(1, 10)) THEN "medium"
                        ELSE "low",
                    potential_god_objects |->
                        C14_Count(before, "in_degree", 30),
                    highly_connected |->
                        C14_Count(before, "total_connections", 20)]]_vars

\* a summary of density exactly 0.3 (medium) with five hotspot entries, of
\* which two have in_degree > 30 and two total_connections > 20, enriched
\* while the caller holds a second summary
C14_Witness ==
    /\ op = "interpret_graph_summary"
    /\ DOMAIN heap = GraphDataRefs
    /\ heap[result].project = "repo"
    /\ QEq(C14_Density(heap[result]), QFrac(3, 10))
    /\ "top_hotspots" \in DOMAIN heap[result]
    /\ Len(heap[result].top_hotspots) = 5
    /\ heap[result].architectural_insights =
           [coupling_level |-> "medium", potential_god_objects |-> 2,
            highly_connected |-> 2]

ScoreOf(scores, n) == QMake(FALSE, scores.num[n], scores.den)

\* the sources that have node n among their targets
SourcesOf(graph, n) ==
    {graph.edges[i].source :
        i \in {j \in DOMAIN graph.edges : graph.edges[j].target = n}}

\* the number of outgoing edges of s, parallel edges counted one by one
OutEdges(graph, s) ==
    Cardinality({i \in DOMAIN graph.edges : graph.edges[i].source = s})

RECURSIVE ProductOver(_, _)
ProductOver(S, f) ==
    IF S = {} THEN 1
    ELSE LET x == CHOOSE x \in S : TRUE IN f[x] * ProductOver(S \ {x}, f)

\* whether new[n] = 0.15 + 0.85 * (sum over the sources s of n of
\* old[s] / outgoing edges of s).  With 0.15 = 3/20, 0.85 = 17/20 and P the
\* product of the sources' edge counts, the right-hand side is
\*   (3 * P * old.den + 17 * sum of old.num[s] * (P / edges of s))
\*       / (20 * P * old.den)
\* and the equation is compared cross-multiplied.
C16_Updated(graph, old, new, n) ==
    LET S == SourcesOf(graph, n)
        out == [s \in S |-> OutEdges(graph, s)]
        P == ProductOver(S, out)
        terms == [s \in S |-> BMulSmall(old.num[s], 17 * (P \div out[s]))]
        rhs == BAdd(BMulSmall(old.den, 3 * P), BSum(S, terms))
    IN  BCmp(BMul(new.num[n], BMulSmall(old.den, 20 * P)),
             BMul(new.den, rhs)) = 0

\* C16: the centrality computation starts from 1.0 for every node, makes
\* exactly 10 passes and then returns (a call in its loop has made at most
\* 10 passes, it returns only after the 10th, and returning makes no
\* further pass); each pass sets every node's score to
\* 0.15 + 0.85 * (sum over its sources s of old_score[s] / outgoing edges of
\* s) from the scores of the pass before alone, a source with parallel
\* edges to the node counting once in the sum and every parallel edge in
\* its divisor.
C16_TenSynchronousPasses ==
    /\ [](op = "_calculate_centrality" =>
            /\ frame.done \in 0..10
            /\ frame.pc = "return" => frame.done = 10
            /\ frame.done = 0 =>
                   \A n \in DOMAIN frame.scores.num :
                       QEq(ScoreOf(frame.scores, n), One))
    /\ [][(op = "_calculate_centrality" /\ op' = "_calculate_centrality") =>
            /\ frame'.done # frame.done =>
                /\ frame'.done = frame.done + 1
                /\ frame'.pc = "loop"
                /\ DOMAIN frame'.scores.num = DOMAIN frame.scores.num
                /\ \A n \in DOMAIN frame'.scores.num :
                       C16_Updated(args.graph, frame.scores, frame'.scores, n)
            /\ frame'.done = frame.done =>
                /\ frame.done = 10
                /\ frame.pc = "loop"
                /\ frame'.pc = "return"
                /\ frame'.scores = frame.scores]_vars

\* two parallel edges A -> B after the first pass: B has 0.15 + 0.85 * 1/2
\* = 0.575 (A counted once, divisor 2) and A has 0.15
C16_Witness ==
    /\ op = "_calculate_centrality"
    /\ args.graph.edges = <<Edge("A", "B"), Edge("A", "B")>>
    /\ frame.done = 1
    /\ QEq(ScoreOf(frame.scores, "B"), QFrac(575, 1000))
    /\ QEq(ScoreOf(frame.scores, "A"), QFrac(15, 100))

\* the ids that are the source or the target of at least one edge
EdgeIds(graph) ==
    {id \in {"A", "B", "C", "X"} :
        \E i \in DOMAIN graph.edges :
            graph.edges[i].source = id \/ graph.edges[i].target = id}

\* C17: the key set of the centrality map is the set of ids that are the
\* source or the target of an edge, when the scores are initialized, after
\* each of the 10 passes and in the map returned: an id that only the node
\* list names has no entry, an id that only edges name has one, and a
\* graph without edges gives the empty map.
C17_KeysAreEdgeEndpoints ==
    op = "_calculate_centrality" =>
        /\ DOMAIN frame.scores.num = EdgeIds(args.graph)
        /\ frame.pc = "return" =>
            /\ DOMAIN result = EdgeIds(args.graph)
            /\ \A i \in DOMAIN args.graph.nodes :
                   args.graph.nodes[i].id \notin EdgeIds(args.graph)
                       => args.graph.nodes[i].id \notin DOMAIN result
            /\ args.graph.edges = <<>> => result = <<>>

\* the map returned for the node list X, A and the one edge B -> C: entries
\* for B and C, none for X and A
C17_Witness ==
    /\ op = "_calculate_centrality"
    /\ frame.pc = "return"
    /\ frame.done = 10
    /\ Len(args.graph.nodes) = 2
    /\ args.graph.edges = <<Edge("B", "C")>>
    /\ DOMAIN result = {"B", "C"}

====
